---- MODULE Spec2Model ----
(***************************************************************************)
(* Offline-first synchronisation layer of the coffee-machine maintenance   *)
(* application: the durable mutation queue (services/db.ts), the offline   *)
(* write path (services/api.ts, handleMutation) and the background replay  *)
(* engine of the service worker (sw.js, processSyncQueue).                 *)
(*                                                                         *)
(* Two execution contexts share the IndexedDB store: the page, which runs  *)
(* handleMutation, and the service worker, which runs processSyncQueue     *)
(* when the browser dispatches the 'sync' event for the tag                *)
(* 'sync-mutations'.  Every await of the source is a step boundary.        *)
(*                                                                         *)
(* The page also runs the cached reads (createCachedApiCall and            *)
(* createCachedApiCallWithArg) and the partial region sync                 *)
(* (syncRegionData) over the 'keyval' store.  Spec is the write path with  *)
(* the replay engine; PageSpec, WriteSpec, CacheSpec and EditSpec run the  *)
(* page's other operations over the same variables; TokenSpec adds logout  *)
(* and login, StuckSpec a server that keeps rejecting an edit, FrameSpec   *)
(* runs reads, syncs, writes and passes together, and StoreSpec starts     *)
(* from a database whose open may have been rejected.  OverlapSpec runs    *)
(* two region syncs at once, SessionSpec lets two users read on one        *)
(* device, CreateSpec creates parts offline one after the other, and       *)
(* DrainSpec is the replay engine with every request of a pass answered.   *)
(***************************************************************************)
EXTENDS Integers, Sequences, FiniteSets, TLC

\* ------------------------------------------------------------------------
\* Bounds of the model
\* ------------------------------------------------------------------------
\* number of mutations the page enqueues over a behaviour
MaxQueued == 2
\* largest value the wall clock Date.now() takes
MaxClock == 1

\* ------------------------------------------------------------------------
\* Values
\* ------------------------------------------------------------------------
NoToken == "none"
Tokens == {"tokA"}
NoId == "noid"

\* the pages self.clients.matchAll() returns
Clients == {"page1", "page2"}

\* the write calls the page issues: addEntity('parts', {name}) and
\* updateEntity('parts', {id: 42, name}), whose payload is sent without the id
addEntity == [url |-> "/api/parts", method |-> "POST", body |-> [id |-> NoId, name |-> "Filter"]]
updateEntity == [url |-> "/api/parts/42", method |-> "PUT", body |-> [id |-> NoId, name |-> "B"]]
Calls == {addEntity, updateEntity}

\* what a read of Date.now() can return: the wall clock of the device, which
\* time synchronisation or the user can set back between two reads
DateNow == 0..MaxClock

\* what a fetch can produce: a response with a status, or a rejection
NetworkError == [kind |-> "error", status |-> 0]
Response(s) == [kind |-> "response", status |-> s]
Statuses == {201, 404, 500}
NoResponse == [kind |-> "none", status |-> 0]

\* ------------------------------------------------------------------------
\* Values of the read model (types.ts) and of the 'keyval' store
\* ------------------------------------------------------------------------
RegionA == "regA"
RegionB == "regB"
MachineIds == {"mA1", "mA2", "mB1"}

\* what db.get gives for a key without an entry, and the JSON value null
Undefined == [json |-> "undefined"]
JsonNull == [json |-> "null"]

\* JavaScript truthiness of a value read from the store
truthy(v) ==
  ~("json" \in DOMAIN v /\ v.json \in {"undefined", "null", "false", "0", "\"\""})

pA1 == [id |-> "pA1", name |-> "Lobby", regionId |-> RegionA]
pA1renamed == [id |-> "pA1", name |-> "Hall", regionId |-> RegionA]
pB1 == [id |-> "pB1", name |-> "Depot", regionId |-> RegionB]
pB1renamed == [id |-> "pB1", name |-> "Yard", regionId |-> RegionB]
mA1 == [id |-> "mA1", name |-> "Saeco", regionId |-> RegionA]
mA2 == [id |-> "mA2", name |-> "Jura", regionId |-> RegionA]
mB1 == [id |-> "mB1", name |-> "WMF", regionId |-> RegionB]
mB1moved == [id |-> "mB1", name |-> "WMF", regionId |-> RegionA]
rec1 == [id |-> "r1", machineId |-> "mA1"]
rec2 == [id |-> "r2", machineId |-> "mA2"]
rec3 == [id |-> "r3", machineId |-> "mB1"]
rec4 == [id |-> "r4", machineId |-> "mA1"]

\* two answers of GET /api/data
AllData0 ==
  [regions |-> <<[id |-> RegionA], [id |-> RegionB]>>,
   points |-> <<pA1, pB1>>,
   machines |-> <<mA1, mB1, mA2>>,
   users |-> <<[id |-> "u1"]>>,
   maintenanceRecords |-> <<rec1, rec3, rec2>>,
   parts |-> <<[id |-> "k1"]>>]
AllData1 ==
  [regions |-> <<[id |-> RegionB], [id |-> RegionA]>>,
   points |-> <<pB1renamed, pA1>>,
   machines |-> <<mB1, mA1>>,
   users |-> <<[id |-> "u1"], [id |-> "u2"]>>,
   maintenanceRecords |-> <<rec3>>,
   parts |-> <<[id |-> "k1"], [id |-> "k2"]>>]

\* answers of GET /api/regions/:id/sync: the points and machines of the
\* region and the records of those machines; a point renamed and a machine
\* deleted, an emptied region, a machine moved into the region
NoPayload == [points |-> <<>>, machines |-> <<>>, maintenanceRecords |-> <<>>]
RegionPayloads(regionId) ==
  IF regionId = RegionA
    THEN {[points |-> <<pA1renamed>>, machines |-> <<mA1>>,
           maintenanceRecords |-> <<rec4, rec1>>],
          NoPayload,
          [points |-> <<pA1>>, machines |-> <<mA1, mB1moved>>,
           maintenanceRecords |-> <<rec1, rec3>>]}
    ELSE {NoPayload,
          [points |-> <<pB1renamed>>, machines |-> <<mB1>>,
           maintenanceRecords |-> <<rec3>>]}

\* the cache keys of api.ts
allData == "allData"
allParts == "allParts"
machineDetails(machineId) == "machineDetails_" \o machineId
Keys == {allData, allParts} \cup {machineDetails(m) : m \in MachineIds}

\* the JSON bodies a 2xx answer for a key can carry
Bodies(key) ==
  IF key = allData THEN {AllData0, AllData1, JsonNull}
  ELSE IF key = allParts THEN {[list |-> <<[id |-> "k1"]>>], JsonNull}
  ELSE {[machine |-> key, records |-> <<rec1>>], JsonNull}

\* statuses of a read: accepted, authentication failure, server failure
ReadStatuses == {200, 401, 500}
NoRead == [kind |-> "none", value |-> Undefined, status |-> 0]

\* no second call of syncRegionData is in progress
NoOther ==
  [pc |-> "idle", regionId |-> "", newRegionData |-> NoPayload, allData |-> Undefined,
   result |-> NoRead]

VARIABLES
  online,        \* navigator.onLine
  stable,        \* from now on the network is reachable and the server accepts
  token,         \* localStorage 'cmm_token'
  queue,         \* object store 'sync-queue': a set of SyncRecords
  nextId,        \* key generator of the autoIncrement store
  registration,  \* browser's sync registration for the tag 'sync-mutations'
  readyCallbacks,\* pending navigator.serviceWorker.ready.then callbacks
  hmPc,          \* position of the page inside handleMutation
  hmArgs,        \* url, method, body of the call in progress
  hmHeaders,     \* getHeaders() evaluated by the call in progress
  hmResult,      \* what the last call returned or threw
  hmFetches,     \* network requests sent by the current call
  hmAdded,       \* ids the current call appended to the queue
  hmTriggered,   \* triggerSync() invocations of the current call
  hmResponse,    \* what the fetch of the current call produced
  hmStoreFailed, \* db.add of the current call was rejected
  swPc,          \* position of the service worker inside processSyncQueue
  requests,      \* the array db.getAllFromIndex returned
  idx,           \* position of the for-of loop in requests
  remainingRequests, \* result of db.count
  passSent,      \* ids of the requests this pass has sent, in order
  passWire,      \* what each of those fetches put on the network
  passOutcomes,  \* what each of those fetches produced
  passPosted,    \* SYNC_COMPLETE messages this pass posted to each client
  passStop,      \* why the loop of this pass was left
  acked,         \* ids whose replay the server answered with a 2xx
  cache,         \* object store 'keyval': the cached value of every key
  rdPc,          \* position of the page inside a cached read
  rdKey,         \* apiKey of the read in progress
  rdResponse,    \* what the fetch of the read produced
  rdData,        \* the body the fetcher resolved to, or the value db.get gave
  rdOnLine,      \* what navigator.onLine was when the catch block read it
  rdResult,      \* what the last read returned or threw
  fresh,         \* per key, the latest value a fetch or a merge produced
  srPc,          \* position of the page inside syncRegionData
  srRegion,      \* regionId of the sync in progress
  srNew,         \* newRegionData, the payload of the region fetch
  srAllData,     \* allData, what getCachedData('allData') gave the sync
  srResult,      \* what the last syncRegionData returned or threw
  srBefore,      \* the cached dataset when the sync was called
  srOther,       \* the locals of a second call of syncRegionData in progress
  server,        \* the parts the server stores
  created,       \* the id the caller got back from its offline create
  rejected,      \* ids of the queued requests the server has answered with a 4xx
  opened         \* per context, whether its openDB('cmm-db') has resolved

storeVars == <<queue, nextId>>
envVars == <<online, stable, token>>
browserVars == <<registration, readyCallbacks>>
pageVars == <<hmPc, hmArgs, hmHeaders, hmResult, hmFetches, hmAdded, hmTriggered,
             hmResponse, hmStoreFailed>>
swVars == <<swPc, requests, idx, remainingRequests, passSent, passWire, passOutcomes,
            passPosted, passStop, acked>>
readVars == <<cache, rdPc, rdKey, rdResponse, rdData, rdOnLine, rdResult, fresh>>
regionVars == <<srPc, srRegion, srNew, srAllData, srResult, srBefore, srOther>>
serverVars == <<server, created, rejected>>
dbVars == <<opened>>
auxVars == <<readVars, regionVars, serverVars, dbVars>>
writeVars == <<storeVars, browserVars, pageVars, swVars>>
vars == <<storeVars, envVars, browserVars, pageVars, swVars, auxVars>>

\* ------------------------------------------------------------------------
\* Pure helpers
\* ------------------------------------------------------------------------
\* api.ts getHeaders: Content-Type plus the bearer token when one is stored
getHeaders(t) == [contentType |-> "application/json", authorization |-> t]

\* variant: the record is stored without the caller's headers
SyncRecordWithoutHeaders(id, request, ts) ==
  [id |-> id, url |-> request.url, method |-> request.method, body |-> request.body,
   headers |-> [contentType |-> "application/json", authorization |-> NoToken],
   timestamp |-> ts]

\* db.ts queueRequest: the record handed to db.add; the store assigns the id
SyncRecord(id, request, ts) ==
  [id |-> id, url |-> request.url, method |-> request.method, body |-> request.body,
   headers |-> request.headers, timestamp |-> ts]

\* order of the index 'timestamp': by timestamp, then by primary key
IndexBefore(a, b) ==
  \/ a.timestamp < b.timestamp
  \/ a.timestamp = b.timestamp /\ a.id <= b.id

\* sw.js: db.getAllFromIndex('sync-queue', 'timestamp'), the records in index order
RECURSIVE getAllFromIndex(_)
getAllFromIndex(store) ==
  IF store = {} THEN <<>>
  ELSE LET first == CHOOSE x \in store : \A y \in store : IndexBefore(x, y)
       IN <<first>> \o getAllFromIndex(store \ {first})

\* Response.ok
ok(response) == response.kind = "response" /\ response.status >= 200 /\ response.status <= 299

\* sw.js line 66: the statuses on which the loop breaks
isClientError(response) ==
  response.kind = "response" /\ response.status >= 400 /\ response.status < 500

\* variant: a client error is skipped and the loop goes on
loopControlSkipsClientError(response) ==
  IF response.kind = "error" THEN "return"
  ELSE IF ok(response) THEN "delete"
  ELSE "continue"

\* variant: a rejected fetch is swallowed and the loop goes on
loopControlSwallowsNetworkError(response) ==
  IF response.kind = "error" THEN "continue"
  ELSE IF ok(response) THEN "delete"
  ELSE IF isClientError(response) THEN "break"
  ELSE "continue"

\* variant: the request is deleted whatever the server answered
loopControlDeletesOnAnyResponse(response) ==
  IF response.kind = "error" THEN "return"
  ELSE "delete"

\* sw.js line 59-75: what the loop does with the outcome of a fetch
loopControl(response) ==
  IF response.kind = "error" THEN "return"
  ELSE IF ok(response) THEN "delete"
  ELSE IF isClientError(response) THEN "break"
  ELSE "continue"

\* variant: the notification is not guarded by an empty queue
shouldNotifyWhateverRemains(remaining) == remaining >= 0

\* sw.js line 79: the test that guards the notification
shouldNotify(remaining) == remaining = 0

\* what a fetch can produce in the current state of the network
FetchOutcomes ==
  IF stable THEN {Response(201)}
  ELSE IF ~online THEN {NetworkError}
  ELSE {Response(s) : s \in Statuses} \cup {NetworkError}

Ids(S) == {m.id : m \in S}
Range(s) == {s[k] : k \in 1..Len(s)}
NoPosts == [c \in Clients |-> 0]

\* ------------------------------------------------------------------------
\* Initial state: a user is logged in (the screens that write are routed
\* only for an authenticated user), the store is empty, nothing is running
\* ------------------------------------------------------------------------
NoArgs == [url |-> "", method |-> "", body |-> [id |-> NoId, name |-> ""]]
NoResult == [kind |-> "none", id |-> NoId, name |-> ""]
ServerId == "srv1"
OfflineId(t) == "offline_" \o ToString(t)

\* what the caller of a write gets when the call throws
ThrownError == [kind |-> "error", id |-> NoId, name |-> ""]

\* variant: the body is returned without looking at response.ok
handleResponseIgnoresStatus(response) == [kind |-> "server", id |-> ServerId, name |-> ""]

\* api.ts handleResponse: throws unless response.ok, else the parsed body
handleResponse(response) ==
  IF ~ok(response) THEN ThrownError
  ELSE [kind |-> "server", id |-> ServerId, name |-> ""]

\* the two contexts that open the database: db.ts getDb and sw.js dbPromise
Contexts == {"page", "worker"}

InitBut ==
  /\ online \in BOOLEAN
  /\ stable = FALSE
  /\ token \in Tokens
  /\ queue = {}
  /\ nextId = 1
  /\ registration = "none"
  /\ readyCallbacks = 0
  /\ hmPc = "idle"
  /\ hmArgs = NoArgs
  /\ hmHeaders = getHeaders(NoToken)
  /\ hmResult = NoResult
  /\ hmFetches = 0
  /\ hmAdded = {}
  /\ hmTriggered = 0
  /\ hmResponse = NoResponse
  /\ hmStoreFailed = FALSE
  /\ swPc = "idle"
  /\ requests = <<>>
  /\ idx = 0
  /\ remainingRequests = 0
  /\ passSent = <<>>
  /\ passWire = <<>>
  /\ passOutcomes = <<>>
  /\ passPosted = NoPosts
  /\ passStop = "running"
  /\ acked = {}
  /\ cache = [k \in Keys |-> Undefined]
  /\ rdPc = "idle"
  /\ rdKey = ""
  /\ rdResponse = NoResponse
  /\ rdData = Undefined
  /\ rdOnLine = "unread"
  /\ rdResult = NoRead
  /\ fresh = [k \in Keys |-> Undefined]
  /\ srPc = "idle"
  /\ srRegion = ""
  /\ srNew = NoPayload
  /\ srAllData = Undefined
  /\ srResult = NoRead
  /\ srBefore = Undefined
  /\ srOther = NoOther
  /\ server = {}
  /\ created = NoId
  /\ rejected = {}

\* both contexts have opened the database
Init ==
  /\ InitBut
  /\ opened = [c \in Contexts |-> TRUE]

\* ------------------------------------------------------------------------
\* The page: api.ts handleMutation
\* ------------------------------------------------------------------------
\* line 81-83 (offline) and 90-94 (online): the call up to its first await
handleMutation(c) ==
  /\ hmPc = "idle"
  /\ online \/ nextId <= MaxQueued
  /\ hmArgs' = c
  /\ hmHeaders' = getHeaders(token)
  /\ UNCHANGED <<hmResult, hmAdded, hmTriggered, hmResponse, hmStoreFailed>>
  /\ IF ~online
       THEN /\ hmPc' = "queueRequest"
            /\ hmFetches' = 0
       ELSE /\ hmPc' = "fetch"
            /\ hmFetches' = 1
  /\ UNCHANGED <<storeVars, envVars, browserVars, swVars>>
  /\ UNCHANGED auxVars

\* variant: the key is computed from the entries the store holds now
queueRequestReusesKey(now) ==
  /\ hmPc = "queueRequest"
  /\ queue' = queue \cup {SyncRecord(Cardinality(queue) + 1,
                 [url |-> hmArgs.url, method |-> hmArgs.method, body |-> hmArgs.body,
                  headers |-> hmHeaders], now)}
  /\ nextId' = nextId + 1
  /\ hmAdded' = hmAdded \cup {Cardinality(queue) + 1}
  /\ hmPc' = "triggerSync"
  /\ UNCHANGED <<envVars, browserVars, hmArgs, hmHeaders, hmResult, hmFetches,
                 hmTriggered, hmResponse, hmStoreFailed, swPc, requests, idx, remainingRequests, passSent, passWire,
                 passOutcomes, passPosted, passStop, acked>>
  /\ UNCHANGED auxVars

\* db.ts queueRequest: Date.now() is read and db.add stores the record under
\* a fresh key
queueRequest(now) ==
  /\ hmPc = "queueRequest"
  /\ queue' = queue \cup {SyncRecord(nextId,
                 [url |-> hmArgs.url, method |-> hmArgs.method, body |-> hmArgs.body,
                  headers |-> hmHeaders], now)}
  /\ nextId' = nextId + 1
  /\ hmAdded' = hmAdded \cup {nextId}
  /\ hmPc' = "triggerSync"
  /\ UNCHANGED <<envVars, browserVars, hmArgs, hmHeaders, hmResult, hmFetches,
                 hmTriggered, hmResponse, hmStoreFailed, swPc, requests, idx, remainingRequests, passSent, passWire,
                 passOutcomes, passPosted, passStop, acked>>
  /\ UNCHANGED auxVars

\* variant: the rejection of db.add is swallowed and the call carries on
queueRequestFailureSwallowed ==
  /\ hmPc = "queueRequest"
  /\ hmPc' = "triggerSync"
  /\ hmStoreFailed' = TRUE
  /\ UNCHANGED <<storeVars, envVars, browserVars, hmArgs, hmHeaders, hmResult, hmFetches,
                 hmAdded, hmTriggered, hmResponse, swVars>>
  /\ UNCHANGED auxVars

\* db.add rejects (quota exceeded): the await in line 83 throws out of the call
queueRequestFails ==
  /\ hmPc = "queueRequest"
  /\ hmPc' = "settled"
  /\ hmResult' = ThrownError
  /\ hmStoreFailed' = TRUE
  /\ hmArgs' = NoArgs
  /\ hmHeaders' = getHeaders(NoToken)
  /\ UNCHANGED <<storeVars, envVars, browserVars, hmFetches,
                 hmAdded, hmTriggered, hmResponse, swVars>>
  /\ UNCHANGED auxVars

\* variant: the optimistic object always gets a fabricated id
triggerSyncFabricatesAlways(now) ==
  /\ hmPc = "triggerSync"
  /\ readyCallbacks' = readyCallbacks + 1
  /\ hmTriggered' = hmTriggered + 1
  /\ hmResult' = [kind |-> "optimistic", id |-> OfflineId(now), name |-> hmArgs.body.name]
  /\ hmPc' = "settled"
  /\ hmArgs' = NoArgs
  /\ hmHeaders' = getHeaders(NoToken)
  /\ UNCHANGED <<storeVars, envVars, registration, hmFetches,
                 hmAdded, hmResponse, hmStoreFailed, swVars>>
  /\ UNCHANGED auxVars

\* line 84-87: triggerSync() schedules the ready.then callback, then the
\* optimistic object is returned, its id made from Date.now()
triggerSync(now) ==
  /\ hmPc = "triggerSync"
  /\ readyCallbacks' = readyCallbacks + 1
  /\ hmTriggered' = hmTriggered + 1
  /\ hmResult' = [kind |-> "optimistic",
                  id |-> IF hmArgs.body.id # NoId THEN hmArgs.body.id ELSE OfflineId(now),
                  name |-> hmArgs.body.name]
  /\ hmPc' = "settled"
  /\ hmArgs' = NoArgs
  /\ hmHeaders' = getHeaders(NoToken)
  /\ UNCHANGED <<storeVars, envVars, registration, hmFetches,
                 hmAdded, hmResponse, hmStoreFailed, swVars>>
  /\ UNCHANGED auxVars

\* variant: an accepted write empties the cache
mutationFetchSettledInvalidates(response) ==
  /\ hmPc = "fetch"
  /\ hmPc' = "settled"
  /\ hmResponse' = response
  /\ hmResult' = IF response.kind = "error" THEN ThrownError
                 ELSE handleResponse(response)
  /\ hmArgs' = NoArgs
  /\ hmHeaders' = getHeaders(NoToken)
  /\ cache' = IF ok(response) THEN [k \in Keys |-> Undefined] ELSE cache
  /\ UNCHANGED <<storeVars, envVars, browserVars, hmFetches,
                 hmAdded, hmTriggered, hmStoreFailed, swVars>>
  /\ UNCHANGED <<rdPc, rdKey, rdResponse, rdData, rdOnLine, rdResult, fresh>>
  /\ UNCHANGED <<regionVars, serverVars, dbVars>>

\* line 90-95: the online fetch settles; a rejection of fetch is thrown to
\* the caller, a response goes through handleResponse
mutationFetchSettled(response) ==
  /\ hmPc = "fetch"
  /\ hmPc' = "settled"
  /\ hmResponse' = response
  /\ hmResult' = IF response.kind = "error" THEN ThrownError
                 ELSE handleResponse(response)
  /\ hmArgs' = NoArgs
  /\ hmHeaders' = getHeaders(NoToken)
  /\ UNCHANGED <<storeVars, envVars, browserVars, hmFetches,
                 hmAdded, hmTriggered, hmStoreFailed, swVars>>
  /\ UNCHANGED auxVars

\* the caller's await of the write resumes with the result or the error
resume ==
  /\ hmPc = "settled"
  /\ hmPc' = "idle"
  /\ hmResult' = NoResult
  /\ hmFetches' = 0
  /\ hmAdded' = {}
  /\ hmTriggered' = 0
  /\ hmResponse' = NoResponse
  /\ hmStoreFailed' = FALSE
  /\ UNCHANGED <<storeVars, envVars, browserVars, hmArgs, hmHeaders, swVars>>

callerResumes ==
  /\ resume
  /\ UNCHANGED auxVars

\* ------------------------------------------------------------------------
\* The browser: Background Sync registration for the tag 'sync-mutations'
\* ------------------------------------------------------------------------
\* api.ts line 31-37: the ready.then callback calls reg.sync.register
register ==
  /\ readyCallbacks > 0
  /\ readyCallbacks' = readyCallbacks - 1
  /\ registration' = CASE registration = "none" -> "pending"
                       [] registration = "pending" -> "pending"
                       [] registration = "firing" -> "reregistered"
                       [] OTHER -> "reregistered"
  /\ UNCHANGED <<storeVars, envVars, pageVars, swVars>>
  /\ UNCHANGED auxVars

\* ------------------------------------------------------------------------
\* The service worker: sw.js processSyncQueue
\* ------------------------------------------------------------------------
\* variant: processSyncQueue() is called without event.waitUntil, so the
\* browser takes the event for handled as soon as the listener returns
syncWithoutWaitUntil ==
  /\ registration = "pending"
  /\ online
  /\ registration' = "none"
  /\ swPc' = "getAll"
  /\ UNCHANGED <<storeVars, envVars, readyCallbacks, pageVars, requests, idx,
                 remainingRequests, passSent, passWire, passOutcomes, passPosted, passStop,
                 acked>>
  /\ UNCHANGED auxVars

\* line 87-92 and 47-49: the browser dispatches the sync event of a pending
\* registration when the device is online; the listener starts a pass, which
\* asks for the queue, and event.waitUntil keeps the registration firing
\* until the pass has ended
sync ==
  /\ registration = "pending"
  /\ online
  /\ registration' = "firing"
  /\ swPc' = "getAll"
  /\ UNCHANGED <<storeVars, envVars, readyCallbacks, pageVars, requests, idx,
                 remainingRequests, passSent, passWire, passOutcomes, passPosted, passStop,
                 acked>>
  /\ UNCHANGED auxVars

\* JSON.stringify of a payload: the text of an object with the payload's
\* own properties
stringify(body) ==
  "{" \o (IF body.id # NoId THEN "\"id\":\"" \o body.id \o "\"," ELSE "")
      \o "\"name\":\"" \o body.name \o "\"}"

\* a request without a body
NoBody == ""

\* variant: the replay is sent with the headers of the token stored now
fetchInitWithCurrentHeaders(req) ==
  [url |-> req.url, method |-> req.method, headers |-> getHeaders(token),
   body |-> IF req.method # "GET" THEN stringify(req.body) ELSE NoBody]

\* sw.js line 53-57: the request fetch is given for a queued record
fetchInit(req) ==
  [url |-> req.url, method |-> req.method, headers |-> req.headers,
   body |-> IF req.method # "GET" THEN stringify(req.body) ELSE NoBody]

\* line 51-57: iteration k of the loop issues its fetch; past the end of the
\* array the loop is left and db.count is issued (line 78)
Iterate(reqs, k) ==
  IF k <= Len(reqs)
    THEN /\ swPc' = "fetch"
         /\ passSent' = Append(passSent, reqs[k].id)
         /\ passWire' = Append(passWire, fetchInit(reqs[k]))
         /\ passStop' = passStop
    ELSE /\ swPc' = "count"
         /\ passSent' = passSent
         /\ passWire' = passWire
         /\ passStop' = "exhausted"

\* line 49: getAllFromIndex resolves and the loop starts
getAll ==
  /\ swPc = "getAll"
  /\ requests' = getAllFromIndex(queue)
  /\ idx' = 1
  /\ Iterate(requests', 1)
  /\ UNCHANGED <<storeVars, envVars, browserVars, pageVars, remainingRequests,
                 passOutcomes, passPosted, acked>>
  /\ UNCHANGED auxVars

\* line 59-75: the fetch of requests[idx] settles
settle(response) ==
  /\ swPc = "fetch"
  /\ passOutcomes' = Append(passOutcomes, response)
  /\ acked' = IF ok(response) THEN acked \cup {requests[idx].id} ELSE acked
  /\ CASE loopControl(response) = "return" ->
            /\ swPc' = "done"
            /\ passStop' = "networkError"
            /\ UNCHANGED <<idx, passSent, passWire>>
       [] loopControl(response) = "delete" ->
            /\ swPc' = "delete"
            /\ UNCHANGED <<idx, passSent, passWire, passStop>>
       [] loopControl(response) = "break" ->
            /\ swPc' = "count"
            /\ passStop' = "clientError"
            /\ UNCHANGED <<idx, passSent, passWire>>
       [] OTHER ->
            /\ idx' = idx + 1
            /\ Iterate(requests, idx + 1)
  /\ UNCHANGED <<storeVars, envVars, browserVars, pageVars, requests, remainingRequests,
                 passPosted>>

fetchSettled(response) ==
  /\ settle(response)
  /\ UNCHANGED auxVars

\* variant: the loop goes on without deleting the accepted request
deleteKeepsEntry ==
  /\ swPc = "delete"
  /\ queue' = queue
  /\ idx' = idx + 1
  /\ Iterate(requests, idx + 1)
  /\ UNCHANGED <<nextId, envVars, browserVars, pageVars, requests, remainingRequests,
                 passOutcomes, passPosted, acked>>
  /\ UNCHANGED auxVars

\* variant: the pass empties the store instead of deleting one key
deleteClearsStore ==
  /\ swPc = "delete"
  /\ queue' = {}
  /\ idx' = idx + 1
  /\ Iterate(requests, idx + 1)
  /\ UNCHANGED <<nextId, envVars, browserVars, pageVars, requests, remainingRequests,
                 passOutcomes, passPosted, acked>>
  /\ UNCHANGED auxVars

\* variant: after a delete the loop starts over from the first request
deleteRewinds ==
  /\ swPc = "delete"
  /\ queue' = {m \in queue : m.id # requests[idx].id}
  /\ idx' = 1
  /\ Iterate(requests, 1)
  /\ UNCHANGED <<nextId, envVars, browserVars, pageVars, requests, remainingRequests,
                 passOutcomes, passPosted, acked>>
  /\ UNCHANGED auxVars

\* line 61: db.delete('sync-queue', req.id) completes, next iteration
delete ==
  /\ swPc = "delete"
  /\ queue' = {m \in queue : m.id # requests[idx].id}
  /\ idx' = idx + 1
  /\ Iterate(requests, idx + 1)
  /\ UNCHANGED <<nextId, envVars, browserVars, pageVars, requests, remainingRequests,
                 passOutcomes, passPosted, acked>>
  /\ UNCHANGED auxVars

\* variant: the pass ends after db.count without notifying anyone
countNeverNotifies ==
  /\ swPc = "count"
  /\ remainingRequests' = Cardinality(queue)
  /\ swPc' = "done"
  /\ UNCHANGED <<storeVars, envVars, browserVars, pageVars, requests, idx,
                 passSent, passWire, passOutcomes, passPosted, passStop, acked>>
  /\ UNCHANGED auxVars

\* line 78-80: db.count resolves
count ==
  /\ swPc = "count"
  /\ remainingRequests' = Cardinality(queue)
  /\ swPc' = IF shouldNotify(remainingRequests') THEN "matchAll" ELSE "done"
  /\ UNCHANGED <<storeVars, envVars, browserVars, pageVars, requests, idx,
                 passSent, passWire, passOutcomes, passPosted, passStop, acked>>
  /\ UNCHANGED auxVars

\* line 80-83: clients.matchAll resolves and every client is sent SYNC_COMPLETE
postMessage ==
  /\ swPc = "matchAll"
  /\ passPosted' = [c \in Clients |-> passPosted[c] + 1]
  /\ swPc' = "done"
  /\ UNCHANGED <<storeVars, envVars, browserVars, pageVars, requests, idx,
                 remainingRequests, passSent, passWire, passOutcomes, passStop,
                 acked>>
  /\ UNCHANGED auxVars

\* line 90: the promise given to event.waitUntil has resolved; the browser
\* drops the registration, or keeps it pending if it was renewed meanwhile
waitUntilSettled ==
  /\ swPc = "done"
  /\ swPc' = "idle"
  /\ registration' = IF registration = "reregistered" THEN "pending" ELSE "none"
  /\ requests' = <<>>
  /\ idx' = 0
  /\ remainingRequests' = 0
  /\ passSent' = <<>>
  /\ passWire' = <<>>
  /\ passOutcomes' = <<>>
  /\ passPosted' = NoPosts
  /\ passStop' = "running"
  /\ UNCHANGED <<storeVars, envVars, readyCallbacks, pageVars, acked>>
  /\ UNCHANGED auxVars

\* ------------------------------------------------------------------------
\* The environment
\* ------------------------------------------------------------------------
goOffline ==
  /\ online /\ ~stable
  /\ online' = FALSE
  /\ UNCHANGED <<stable, token, storeVars, browserVars, pageVars, swVars>>
  /\ UNCHANGED auxVars

goOnline ==
  /\ ~online
  /\ online' = TRUE
  /\ UNCHANGED <<stable, token, storeVars, browserVars, pageVars, swVars>>
  /\ UNCHANGED auxVars

\* connectivity returns for good
stabilize ==
  /\ ~stable
  /\ stable' = TRUE
  /\ online' = TRUE
  /\ UNCHANGED <<token, storeVars, browserVars, pageVars, swVars>>
  /\ UNCHANGED auxVars

PageNext ==
  \/ \E c \in Calls : handleMutation(c)
  \/ \E now \in DateNow : queueRequest(now)
  \/ queueRequestFails
  \/ \E now \in DateNow : triggerSync(now)
  \/ \E r \in FetchOutcomes : mutationFetchSettled(r)
  \/ callerResumes

SwNext ==
  \/ sync
  \/ getAll
  \/ \E r \in FetchOutcomes : fetchSettled(r)
  \/ delete
  \/ count
  \/ postMessage
  \/ waitUntilSettled

EnvNext ==
  \/ goOffline
  \/ goOnline

Next == PageNext \/ register \/ SwNext \/ EnvNext

Spec == Init /\ [][Next]_vars

\* the same system in an environment where connectivity eventually returns
\* for good; every step of the page, the browser and the service worker that
\* is enabled is eventually taken, the user is not obliged to write again
LiveNext == Next \/ stabilize

Fairness ==
  /\ WF_vars((\E now \in DateNow : queueRequest(now)) \/ queueRequestFails)
  /\ WF_vars(\E now \in DateNow : triggerSync(now))
  /\ WF_vars(\E r \in FetchOutcomes : mutationFetchSettled(r))
  /\ WF_vars(callerResumes)
  /\ WF_vars(register)
  /\ WF_vars(SwNext)

LiveSpec == Init /\ [][LiveNext]_vars /\ Fairness

\* ------------------------------------------------------------------------
\* The page: api.ts createCachedApiCall and createCachedApiCallWithArg
\* ------------------------------------------------------------------------
\* what the fetch of a read can produce in the current state of the network
ReadOutcomes ==
  IF ~online THEN {NetworkError}
  ELSE {NetworkError} \cup {Response(s) : s \in ReadStatuses}

ReadError(response) == [kind |-> "error", value |-> Undefined, status |-> response.status]

\* line 46 and 65: the wrapper is called and the fetcher sends its request
cachedRead(key) ==
  /\ rdPc = "idle"
  /\ rdPc' = "fetch"
  /\ rdKey' = key
  /\ UNCHANGED <<cache, rdResponse, rdData, rdOnLine, rdResult, fresh>>
  /\ UNCHANGED <<envVars, writeVars, regionVars, serverVars, dbVars>>

\* variant: the cache is consulted whatever navigator.onLine says
catchBlockIgnoresOnLine ==
  /\ rdOnLine' = IF online THEN "online" ELSE "offline"
  /\ rdPc' = "getCachedData"
  /\ rdData' = cache[rdKey]
  /\ rdResult' = rdResult

\* line 51-57 and 70-76: the catch block reads navigator.onLine; offline it
\* asks the store for the key, online it rethrows
catchBlock ==
  /\ rdOnLine' = IF online THEN "online" ELSE "offline"
  /\ IF ~online
       THEN /\ rdPc' = "getCachedData"
            /\ rdData' = cache[rdKey]
            /\ rdResult' = rdResult
       ELSE /\ rdPc' = "settled"
            /\ rdData' = rdData
            /\ rdResult' = ReadError(rdResponse')

\* the fetch of the fetcher settles: a rejection is caught at once, a
\* response goes on to handleResponse, which awaits the body
readFetchSettled(response) ==
  /\ rdPc = "fetch"
  /\ rdResponse' = response
  /\ IF response.kind = "error"
       THEN catchBlock
       ELSE /\ rdPc' = "json"
            /\ UNCHANGED <<rdData, rdOnLine, rdResult>>
  /\ UNCHANGED <<cache, rdKey, fresh>>
  /\ UNCHANGED <<envVars, writeVars, regionVars, serverVars, dbVars>>

\* variant: a key that already has an entry is not written again
readBodyParsedKeepsFirstEntry(body) ==
  /\ rdPc = "json"
  /\ UNCHANGED <<rdKey, rdResponse>>
  /\ IF ok(rdResponse)
       THEN /\ rdData' = body
            /\ cache' = IF cache[rdKey] = Undefined THEN [cache EXCEPT ![rdKey] = body] ELSE cache
            /\ fresh' = [fresh EXCEPT ![rdKey] = body]
            /\ rdPc' = "setCachedData"
            /\ UNCHANGED <<rdOnLine, rdResult>>
       ELSE /\ catchBlock
            /\ UNCHANGED <<cache, fresh>>
  /\ UNCHANGED <<envVars, writeVars, regionVars, serverVars, dbVars>>

\* line 21-27, 48-49: handleResponse throws unless response.ok, and the throw
\* is caught; else the fetcher resolves to the body and setCachedData puts
\* it under the key (the put is issued in the same turn of the event loop)
readBodyParsed(body) ==
  /\ rdPc = "json"
  /\ UNCHANGED <<rdKey, rdResponse>>
  /\ IF ok(rdResponse)
       THEN /\ rdData' = body
            /\ cache' = [cache EXCEPT ![rdKey] = body]
            /\ fresh' = [fresh EXCEPT ![rdKey] = body]
            /\ rdPc' = "setCachedData"
            /\ UNCHANGED <<rdOnLine, rdResult>>
       ELSE /\ catchBlock
            /\ UNCHANGED <<cache, fresh>>
  /\ UNCHANGED <<envVars, writeVars, regionVars, serverVars, dbVars>>

\* line 49-50: the put has completed and the fetched data is returned
readSetCached ==
  /\ rdPc = "setCachedData"
  /\ rdPc' = "settled"
  /\ rdResult' = [kind |-> "data", value |-> rdData, status |-> rdResponse.status]
  /\ UNCHANGED <<cache, rdKey, rdResponse, rdData, rdOnLine, fresh>>
  /\ UNCHANGED <<envVars, writeVars, regionVars, serverVars, dbVars>>

\* line 54-57: getCachedData resolves; a truthy value is returned, else the
\* original error is rethrown
readGetCached ==
  /\ rdPc = "getCachedData"
  /\ rdPc' = "settled"
  /\ rdResult' = IF truthy(rdData)
                   THEN [kind |-> "cached", value |-> rdData, status |-> rdResponse.status]
                   ELSE ReadError(rdResponse)
  /\ UNCHANGED <<cache, rdKey, rdResponse, rdData, rdOnLine, fresh>>
  /\ UNCHANGED <<envVars, writeVars, regionVars, serverVars, dbVars>>

\* the caller's await of the read resumes with the value or the error
readerResumes ==
  /\ rdPc = "settled"
  /\ rdPc' = "idle"
  /\ rdKey' = ""
  /\ rdResponse' = NoResponse
  /\ rdData' = Undefined
  /\ rdOnLine' = "unread"
  /\ rdResult' = NoRead
  /\ UNCHANGED <<cache, fresh>>
  /\ UNCHANGED <<envVars, writeVars, regionVars, serverVars, dbVars>>

\* the steps of a read once it is called
ReadSteps ==
  \/ \E r \in ReadOutcomes : readFetchSettled(r)
  \/ \E body \in Bodies(rdKey) : readBodyParsed(body)
  \/ readSetCached
  \/ readGetCached
  \/ readerResumes

\* the page reads the parts list (getAllParts) and writes, online or offline
PageSpecNext ==
  \/ cachedRead(allParts)
  \/ ReadSteps
  \/ PageNext
  \/ EnvNext

PageSpec == Init /\ [][PageSpecNext]_vars

\* ------------------------------------------------------------------------
\* The page: api.ts syncRegionData
\* ------------------------------------------------------------------------
\* line 165: the ids of the machines the cached dataset lists in the region
oldMachineIdsInRegion(data, regionId) ==
  {m.id : m \in {x \in Range(data.machines) : x.regionId = regionId}}

\* variant: the whole lists are replaced by the fresh payload
mergeDropsOtherRegions(data, regionId, new) ==
  [data EXCEPT !.points = new.points,
               !.machines = new.machines,
               !.maintenanceRecords = new.maintenanceRecords]

\* variant: the stale records are found through the fresh machines
mergeFiltersByNewMachines(data, regionId, new) ==
  LET newIds == {m.id : m \in Range(new.machines)}
  IN [data EXCEPT
        !.points = SelectSeq(data.points, LAMBDA q : q.regionId # regionId) \o new.points,
        !.machines = SelectSeq(data.machines, LAMBDA m : m.regionId # regionId) \o new.machines,
        !.maintenanceRecords =
           SelectSeq(data.maintenanceRecords, LAMBDA r : r.machineId \notin newIds)
             \o new.maintenanceRecords]

\* line 165-178: the merged dataset
merge(data, regionId, new) ==
  LET oldIds == oldMachineIdsInRegion(data, regionId)
      otherPoints == SelectSeq(data.points, LAMBDA q : q.regionId # regionId)
      otherMachines == SelectSeq(data.machines, LAMBDA m : m.regionId # regionId)
      otherRecords == SelectSeq(data.maintenanceRecords, LAMBDA r : r.machineId \notin oldIds)
  IN [data EXCEPT !.points = otherPoints \o new.points,
                  !.machines = otherMachines \o new.machines,
                  !.maintenanceRecords = otherRecords \o new.maintenanceRecords]

\* line 139-141: the sync is called and sends GET /api/regions/:id/sync
syncRegionData(regionId) ==
  /\ srPc = "idle"
  /\ srPc' = "fetch"
  /\ srRegion' = regionId
  /\ srBefore' = cache[allData]
  /\ UNCHANGED <<srNew, srAllData, srResult, srOther>>
  /\ UNCHANGED <<envVars, writeVars, readVars, serverVars, dbVars>>

\* line 141-142: the region fetch settles; a rejection or a status that is
\* not ok is thrown to the caller, else the body is the fresh payload and
\* the details of its machines are requested (line 146-152)
regionFetchSettled(response, payload) ==
  /\ srPc = "fetch"
  /\ IF ok(response)
       THEN /\ srNew' = payload
            /\ srPc' = "details"
            /\ UNCHANGED srResult
       ELSE /\ srPc' = "settled"
            /\ srResult' = ReadError(response)
            /\ UNCHANGED srNew
  /\ UNCHANGED <<srRegion, srAllData, srBefore, srOther>>
  /\ UNCHANGED <<envVars, writeVars, readVars, serverVars, dbVars>>

\* what the detail fetches of the fresh machines can produce: per machine a
\* body, or a failure, which line 147-151 swallows
DetailOutcomes ==
  LET ids == {m.id : m \in Range(srNew.machines)}
  IN IF ~online THEN {[m \in ids |-> "failed"]}
     ELSE [ids -> {"failed", "body", "null"}]

\* variant: one failed detail fetch rejects Promise.all and the sync with it
precacheDetailsRejects(outcome) ==
  /\ srPc = "details"
  /\ LET put(key, old) ==
           IF \E m \in DOMAIN outcome : key = machineDetails(m) /\ outcome[m] # "failed"
             THEN LET m == CHOOSE x \in DOMAIN outcome : key = machineDetails(x)
                  IN IF outcome[m] = "null" THEN JsonNull
                     ELSE [machine |-> key, records |-> <<rec1>>]
             ELSE old
     IN /\ cache' = [k \in Keys |-> put(k, cache[k])]
        /\ fresh' = [k \in Keys |-> put(k, fresh[k])]
  /\ IF \E m \in DOMAIN outcome : outcome[m] = "failed"
       THEN /\ srPc' = "settled"
            /\ srResult' = ReadError(NetworkError)
            /\ UNCHANGED srAllData
       ELSE /\ srPc' = "getCachedData"
            /\ srAllData' = cache[allData]
            /\ UNCHANGED srResult
  /\ UNCHANGED <<srRegion, srNew, srBefore, srOther>>
  /\ UNCHANGED <<rdPc, rdKey, rdResponse, rdData, rdOnLine, rdResult>>
  /\ UNCHANGED <<envVars, writeVars, serverVars, dbVars>>

\* line 145-157: every getMachineDetails has settled, each success having
\* put its body under its key; getCachedData('allData') is issued
precacheDetails(outcome) ==
  /\ srPc = "details"
  /\ LET put(key, old) ==
           IF \E m \in DOMAIN outcome : key = machineDetails(m) /\ outcome[m] # "failed"
             THEN LET m == CHOOSE x \in DOMAIN outcome : key = machineDetails(x)
                  IN IF outcome[m] = "null" THEN JsonNull
                     ELSE [machine |-> key, records |-> <<rec1>>]
             ELSE old
     IN /\ cache' = [k \in Keys |-> put(k, cache[k])]
        /\ fresh' = [k \in Keys |-> put(k, fresh[k])]
  /\ srAllData' = cache[allData]
  /\ srPc' = "getCachedData"
  /\ UNCHANGED <<srRegion, srNew, srResult, srBefore, srOther>>
  /\ UNCHANGED <<rdPc, rdKey, rdResponse, rdData, rdOnLine, rdResult>>
  /\ UNCHANGED <<envVars, writeVars, serverVars, dbVars>>

\* line 157-181: getCachedData has resolved; without a dataset the sync falls
\* back to getAllDataForUser, else it merges and puts the merged dataset
regionGetCached ==
  /\ srPc = "getCachedData"
  /\ IF ~truthy(srAllData)
       THEN /\ srPc' = "fallback"
            /\ UNCHANGED <<cache, fresh, srResult>>
       ELSE LET updatedData == merge(srAllData, srRegion, srNew)
            IN /\ cache' = [cache EXCEPT ![allData] = updatedData]
               /\ fresh' = [fresh EXCEPT ![allData] = updatedData]
               /\ srResult' = [kind |-> "merged", value |-> updatedData, status |-> 200]
               /\ srPc' = "setCachedData"
  /\ UNCHANGED <<srRegion, srNew, srAllData, srBefore, srOther>>
  /\ UNCHANGED <<rdPc, rdKey, rdResponse, rdData, rdOnLine, rdResult>>
  /\ UNCHANGED <<envVars, writeVars, serverVars, dbVars>>

\* line 181-184: the put has completed and the merged dataset is returned
regionSetCached ==
  /\ srPc = "setCachedData"
  /\ srPc' = "settled"
  /\ srResult' = [srResult EXCEPT !.kind = "data"]
  /\ UNCHANGED <<srRegion, srNew, srAllData, srBefore, srOther>>
  /\ UNCHANGED <<envVars, writeVars, readVars, serverVars, dbVars>>

\* variant: the fallback returns the fetched dataset without putting it
regionFallbackSettledWithoutPut(response, body) ==
  /\ srPc = "fallback"
  /\ srPc' = "settled"
  /\ UNCHANGED <<cache, fresh>>
  /\ srResult' = IF ok(response)
                   THEN [kind |-> "data", value |-> body, status |-> response.status]
                   ELSE ReadError(response)
  /\ UNCHANGED <<srRegion, srNew, srAllData, srBefore, srOther>>
  /\ UNCHANGED <<rdPc, rdKey, rdResponse, rdData, rdOnLine, rdResult>>
  /\ UNCHANGED <<envVars, writeVars, serverVars, dbVars>>

\* line 161: the call of getAllDataForUser settles: a fetched body is put
\* under 'allData' and returned; a failure is answered from the cache when
\* offline and a truthy value is cached, else thrown
regionFallbackSettled(response, body) ==
  /\ srPc = "fallback"
  /\ srPc' = "settled"
  /\ IF ok(response)
       THEN /\ cache' = [cache EXCEPT ![allData] = body]
            /\ fresh' = [fresh EXCEPT ![allData] = body]
            /\ srResult' = [kind |-> "data", value |-> body, status |-> response.status]
       ELSE /\ UNCHANGED <<cache, fresh>>
            /\ srResult' = IF ~online /\ truthy(cache[allData])
                             THEN [kind |-> "cached", value |-> cache[allData],
                                   status |-> response.status]
                             ELSE ReadError(response)
  /\ UNCHANGED <<srRegion, srNew, srAllData, srBefore, srOther>>
  /\ UNCHANGED <<rdPc, rdKey, rdResponse, rdData, rdOnLine, rdResult>>
  /\ UNCHANGED <<envVars, writeVars, serverVars, dbVars>>

\* the caller's await of the sync resumes with the dataset or the error
syncReturns ==
  /\ srPc = "settled"
  /\ srPc' = "idle"
  /\ srRegion' = ""
  /\ srNew' = NoPayload
  /\ srAllData' = Undefined
  /\ srResult' = NoRead
  /\ srBefore' = Undefined
  /\ UNCHANGED srOther
  /\ UNCHANGED <<envVars, writeVars, readVars, serverVars, dbVars>>

\* the steps of a sync once it is called
RegionSteps ==
  \/ \E r \in ReadOutcomes : \E payload \in RegionPayloads(srRegion) : regionFetchSettled(r, payload)
  \/ \E outcome \in DetailOutcomes : precacheDetails(outcome)
  \/ regionGetCached
  \/ regionSetCached
  \/ \E r \in ReadOutcomes : \E body \in Bodies(allData) : regionFallbackSettled(r, body)
  \/ syncReturns

\* the page reads the full dataset and a machine's details and syncs region
\* A, one call after the other
CacheSpecNext ==
  \/ (srPc = "idle" /\ cachedRead(allData))
  \/ (srPc = "idle" /\ cachedRead(machineDetails("mA1")))
  \/ ReadSteps
  \/ (rdPc = "idle" /\ syncRegionData(RegionA))
  \/ RegionSteps
  \/ EnvNext

CacheSpec == Init /\ [][CacheSpecNext]_vars

\* ------------------------------------------------------------------------
\* Reads, region syncs and writes of the page, one call after the other,
\* while the service worker replays the queue
\* ------------------------------------------------------------------------
PageIdle == rdPc = "idle" /\ srPc = "idle" /\ hmPc = "idle"
WorkerIdle == swPc = "idle"

\* the keys the page reads: the dataset and the details of a machine
FrameKeys == {allData, machineDetails("mA1")}

\* a call of the page starts when the previous one has returned and no pass
\* is running, a pass starts when the page is between two calls: no step of
\* the worker reads or writes what the page's calls work on; the writes add
\* parts, the clock standing still
FrameNext ==
  \/ \E key \in FrameKeys : (PageIdle /\ WorkerIdle /\ cachedRead(key))
  \/ ReadSteps
  \/ (PageIdle /\ WorkerIdle /\ syncRegionData(RegionA))
  \/ RegionSteps
  \/ (PageIdle /\ WorkerIdle /\ handleMutation(addEntity))
  \/ \E now \in DateNow : (now = 0 /\ queueRequest(now))
  \/ queueRequestFails
  \/ \E now \in DateNow : (now = 0 /\ triggerSync(now))
  \/ \E r \in FetchOutcomes : mutationFetchSettled(r)
  \/ callerResumes
  \/ register
  \/ (PageIdle /\ sync)
  \/ getAll
  \/ \E r \in FetchOutcomes : fetchSettled(r)
  \/ delete
  \/ count
  \/ postMessage
  \/ waitUntilSettled
  \/ EnvNext

FrameSpec == Init /\ [][FrameNext]_vars

\* ------------------------------------------------------------------------
\* Two calls of syncRegionData in progress at once (api.ts line 139-185):
\* every await of the function gives way to the other call
\* ------------------------------------------------------------------------
\* line 139-141: a second call is made while the first is in progress
syncRegionDataOther(regionId) ==
  /\ srPc # "idle"
  /\ srOther.pc = "idle"
  /\ srOther' = [srOther EXCEPT !.pc = "fetch", !.regionId = regionId]
  /\ UNCHANGED <<srPc, srRegion, srNew, srAllData, srResult, srBefore>>
  /\ UNCHANGED <<envVars, writeVars, readVars, serverVars, dbVars>>

\* line 141-142: the region fetch of the second call settles
otherFetchSettled(response, payload) ==
  /\ srOther.pc = "fetch"
  /\ srOther' = IF ok(response)
                  THEN [srOther EXCEPT !.pc = "details", !.newRegionData = payload]
                  ELSE [srOther EXCEPT !.pc = "settled", !.result = ReadError(response)]
  /\ UNCHANGED <<srPc, srRegion, srNew, srAllData, srResult, srBefore>>
  /\ UNCHANGED <<envVars, writeVars, readVars, serverVars, dbVars>>

\* what the detail fetches of the second call can produce
OtherDetailOutcomes ==
  LET ids == {m.id : m \in Range(srOther.newRegionData.machines)}
  IN IF ~online THEN {[m \in ids |-> "failed"]}
     ELSE [ids -> {"failed", "body", "null"}]

\* line 145-157: the detail fetches of the second call have settled and its
\* getCachedData('allData') is issued
otherPrecacheDetails(outcome) ==
  /\ srOther.pc = "details"
  /\ LET put(key, old) ==
           IF \E m \in DOMAIN outcome : key = machineDetails(m) /\ outcome[m] # "failed"
             THEN LET m == CHOOSE x \in DOMAIN outcome : key = machineDetails(x)
                  IN IF outcome[m] = "null" THEN JsonNull
                     ELSE [machine |-> key, records |-> <<rec1>>]
             ELSE old
     IN /\ cache' = [k \in Keys |-> put(k, cache[k])]
        /\ fresh' = [k \in Keys |-> put(k, fresh[k])]
  /\ srOther' = [srOther EXCEPT !.pc = "getCachedData", !.allData = cache[allData]]
  /\ UNCHANGED <<srPc, srRegion, srNew, srAllData, srResult, srBefore>>
  /\ UNCHANGED <<rdPc, rdKey, rdResponse, rdData, rdOnLine, rdResult>>
  /\ UNCHANGED <<envVars, writeVars, serverVars, dbVars>>

\* line 157-181: getCachedData of the second call has resolved; it merges
\* into the dataset it read and puts the result
otherGetCached ==
  /\ srOther.pc = "getCachedData"
  /\ IF ~truthy(srOther.allData)
       THEN /\ srOther' = [srOther EXCEPT !.pc = "fallback"]
            /\ UNCHANGED <<cache, fresh>>
       ELSE LET updatedData == merge(srOther.allData, srOther.regionId, srOther.newRegionData)
            IN /\ cache' = [cache EXCEPT ![allData] = updatedData]
               /\ fresh' = [fresh EXCEPT ![allData] = updatedData]
               /\ srOther' = [srOther EXCEPT !.pc = "setCachedData",
                                !.result = [kind |-> "merged", value |-> updatedData,
                                            status |-> 200]]
  /\ UNCHANGED <<srPc, srRegion, srNew, srAllData, srResult, srBefore>>
  /\ UNCHANGED <<rdPc, rdKey, rdResponse, rdData, rdOnLine, rdResult>>
  /\ UNCHANGED <<envVars, writeVars, serverVars, dbVars>>

\* line 181-184: the put of the second call has completed
otherSetCached ==
  /\ srOther.pc = "setCachedData"
  /\ srOther' = [srOther EXCEPT !.pc = "settled", !.result.kind = "data"]
  /\ UNCHANGED <<srPc, srRegion, srNew, srAllData, srResult, srBefore>>
  /\ UNCHANGED <<envVars, writeVars, readVars, serverVars, dbVars>>

\* line 161: getAllDataForUser called by the second call settles
otherFallbackSettled(response, body) ==
  /\ srOther.pc = "fallback"
  /\ IF ok(response)
       THEN /\ cache' = [cache EXCEPT ![allData] = body]
            /\ fresh' = [fresh EXCEPT ![allData] = body]
            /\ srOther' = [srOther EXCEPT !.pc = "settled",
                             !.result = [kind |-> "data", value |-> body,
                                         status |-> response.status]]
       ELSE /\ UNCHANGED <<cache, fresh>>
            /\ srOther' = [srOther EXCEPT !.pc = "settled",
                             !.result = IF ~online /\ truthy(cache[allData])
                                          THEN [kind |-> "cached", value |-> cache[allData],
                                                status |-> response.status]
                                          ELSE ReadError(response)]
  /\ UNCHANGED <<srPc, srRegion, srNew, srAllData, srResult, srBefore>>
  /\ UNCHANGED <<rdPc, rdKey, rdResponse, rdData, rdOnLine, rdResult>>
  /\ UNCHANGED <<envVars, writeVars, serverVars, dbVars>>

\* the callers' awaits of both syncs resume
bothReturn ==
  /\ srPc = "settled"
  /\ srOther.pc = "settled"
  /\ srPc' = "idle"
  /\ srRegion' = ""
  /\ srNew' = NoPayload
  /\ srAllData' = Undefined
  /\ srResult' = NoRead
  /\ srBefore' = Undefined
  /\ srOther' = NoOther
  /\ UNCHANGED <<envVars, writeVars, readVars, serverVars, dbVars>>

\* the page reads the full dataset, then syncs region A and, while that call
\* is in progress, region B
OverlapNext ==
  \/ (srPc = "idle" /\ cachedRead(allData))
  \/ ReadSteps
  \/ (rdPc = "idle" /\ syncRegionData(RegionA))
  \/ syncRegionDataOther(RegionB)
  \/ \E r \in ReadOutcomes : \E payload \in RegionPayloads(srRegion) : regionFetchSettled(r, payload)
  \/ \E outcome \in DetailOutcomes : precacheDetails(outcome)
  \/ regionGetCached
  \/ regionSetCached
  \/ \E r \in ReadOutcomes : \E body \in Bodies(allData) : regionFallbackSettled(r, body)
  \/ \E r \in ReadOutcomes : \E payload \in RegionPayloads(srOther.regionId) : otherFetchSettled(r, payload)
  \/ \E outcome \in OtherDetailOutcomes : otherPrecacheDetails(outcome)
  \/ otherGetCached
  \/ otherSetCached
  \/ \E r \in ReadOutcomes : \E body \in Bodies(allData) : otherFallbackSettled(r, body)
  \/ bothReturn
  \/ EnvNext

OverlapSpec == Init /\ [][OverlapNext]_vars

\* ------------------------------------------------------------------------
\* An entity created offline and edited offline, replayed to the server
\* (server/src/index.ts, POST /api/:entityType and PUT /api/:entityType/:id)
\* ------------------------------------------------------------------------
\* the names the user gives the part in later edits
EditNames == {"B", "C"}

\* api.ts updateEntity: the id goes into the url, the payload is sent without it
updateEntityOf(id, name) ==
  [url |-> "/api/parts/" \o id, method |-> "PUT", body |-> [id |-> NoId, name |-> name]]

\* the identifier the database gives the n-th row it creates
serverIdOf(n) == "srv" \o ToString(n)

\* the row a request with this url addresses
addresses(url, part) == url = "/api/parts/" \o part.id

\* the status the server answers: 201 to a create, 200 to an update of a
\* row it has, 404 to an update of an id it does not know
serve(parts, request) ==
  IF request.method = "POST" THEN Response(201)
  ELSE IF \E e \in parts : addresses(request.url, e) THEN Response(200)
  ELSE Response(404)

\* the rows after the request: model.create adds a row under a fresh id,
\* model.update rewrites the row the url names
applied(parts, request) ==
  IF request.method = "POST"
    THEN parts \cup {[id |-> serverIdOf(Cardinality(parts) + 1), name |-> request.body.name]}
  ELSE IF \E e \in parts : addresses(request.url, e)
    THEN {IF addresses(request.url, e) THEN [e EXCEPT !.name = request.body.name] ELSE e
            : e \in parts}
  ELSE parts

\* the user creates a part while offline
offlineCreate ==
  /\ ~online
  /\ created = NoId
  /\ nextId = 1
  /\ handleMutation(addEntity)

\* the user edits, while offline, the part under the id the create returned
offlineEdit(name) ==
  /\ ~online
  /\ created # NoId
  /\ handleMutation(updateEntityOf(created, name))

\* the caller resumes and keeps the id of the object the create returned
callerKeepsId ==
  /\ resume
  /\ created' = IF created = NoId /\ hmResult.kind = "optimistic" THEN hmResult.id ELSE created
  /\ UNCHANGED <<readVars, regionVars, server, rejected, dbVars>>

\* the fetch of a replayed request reaches the server, which answers it
replayServed ==
  /\ online
  /\ swPc = "fetch"
  /\ settle(serve(server, requests[idx]))
  /\ server' = applied(server, requests[idx])
  /\ rejected' = IF isClientError(serve(server, requests[idx]))
                   THEN rejected \cup {requests[idx].id}
                   ELSE rejected
  /\ UNCHANGED <<readVars, regionVars, created, dbVars>>

\* the fetch of a replayed request is rejected because the device is offline
replayUnreachable ==
  /\ ~online
  /\ fetchSettled(NetworkError)

EditNext ==
  \/ offlineCreate
  \/ \E name \in EditNames : offlineEdit(name)
  \/ \E now \in DateNow : queueRequest(now)
  \/ \E now \in DateNow : triggerSync(now)
  \/ callerKeepsId
  \/ register
  \/ sync
  \/ getAll
  \/ replayServed
  \/ replayUnreachable
  \/ delete
  \/ count
  \/ postMessage
  \/ waitUntilSettled
  \/ EnvNext

EditSpec == Init /\ [][EditNext]_vars

\* ------------------------------------------------------------------------
\* Parts created offline one after the other, the caller keeping the id the
\* first create returned
\* ------------------------------------------------------------------------
CreateNext ==
  \/ (~online /\ handleMutation(addEntity))
  \/ \E now \in DateNow : queueRequest(now)
  \/ \E now \in DateNow : triggerSync(now)
  \/ callerKeepsId
  \/ register
  \/ SwNext
  \/ EnvNext

CreateSpec == Init /\ [][CreateNext]_vars

\* ------------------------------------------------------------------------
\* Writes queued offline and replayed to a server that has no part 42: it
\* answers 404 to every replay of updateEntity and 201 to every addEntity
\* ------------------------------------------------------------------------
StuckNext ==
  \/ \E c \in Calls : (~online /\ handleMutation(c))
  \/ \E now \in DateNow : queueRequest(now)
  \/ \E now \in DateNow : triggerSync(now)
  \/ callerResumes
  \/ register
  \/ sync
  \/ getAll
  \/ replayServed
  \/ replayUnreachable
  \/ delete
  \/ count
  \/ postMessage
  \/ waitUntilSettled
  \/ EnvNext

StuckSpec == Init /\ [][StuckNext]_vars

\* ------------------------------------------------------------------------
\* A pass whose network calls and store requests all come back
\* ------------------------------------------------------------------------
\* the steps of processSyncQueue after the sync event has called it
PassSteps ==
  \/ getAll
  \/ \E r \in FetchOutcomes : fetchSettled(r)
  \/ delete
  \/ count
  \/ postMessage

\* parts are added offline, whatever the clock says when they are queued,
\* and replayed; every request of a pass to the store, to the network and to
\* the clients is eventually answered
DrainNext ==
  \/ (~online /\ handleMutation(addEntity))
  \/ \E now \in DateNow : queueRequest(now)
  \/ \E now \in DateNow : (now = 0 /\ triggerSync(now))
  \/ callerResumes
  \/ register
  \/ SwNext
  \/ EnvNext

DrainSpec == Init /\ [][DrainNext]_vars /\ WF_vars(PassSteps)

\* ------------------------------------------------------------------------
\* The write path called with and without an id in the payload
\* ------------------------------------------------------------------------
\* addEntity handed an object that carries an id: the type Omit<T, 'id'>
\* removes nothing at run time, the object becomes the body as it is
addEntityWithId ==
  [url |-> "/api/parts", method |-> "POST", body |-> [id |-> "42", name |-> "Filter"]]

\* the identifiers the database can have issued
ServerIds == {serverIdOf(n) : n \in 1..(MaxQueued + 1)}

WriteSpecNext ==
  \/ handleMutation(addEntityWithId)
  \/ PageNext
  \/ EnvNext

WriteSpec == Init /\ [][WriteSpecNext]_vars

\* ------------------------------------------------------------------------
\* The stored token changing under queued writes (contexts/AuthContext.tsx)
\* ------------------------------------------------------------------------
\* the tokens the server issues at a login
IssuedTokens == {"tokA", "tokB"}

\* AuthContext logout: the stored token is removed
logout ==
  /\ token # NoToken
  /\ token' = NoToken
  /\ UNCHANGED <<online, stable, writeVars, auxVars>>

\* AuthContext login: the server's answer carries a token, which is stored
login(t) ==
  /\ token = NoToken
  /\ online
  /\ token' = t
  /\ UNCHANGED <<online, stable, writeVars, auxVars>>

\* a logged-in user adds parts while offline, the clock standing still; the
\* user logs out and in again while writes are queued and passes run
TokenNext ==
  \/ (token # NoToken /\ ~online /\ handleMutation(addEntity))
  \/ \E now \in DateNow : (now = 0 /\ queueRequest(now))
  \/ \E now \in DateNow : (now = 0 /\ triggerSync(now))
  \/ callerResumes
  \/ register
  \/ SwNext
  \/ EnvNext
  \/ logout
  \/ \E t \in IssuedTokens : login(t)

TokenSpec == Init /\ [][TokenNext]_vars

\* ------------------------------------------------------------------------
\* Reads of the full dataset by the users who log in on one device
\* (server/src/index.ts GET /api/data, contexts/AuthContext.tsx)
\* ------------------------------------------------------------------------
\* what GET /api/data answers a technician of region B: that region alone
TechnicianData ==
  [regions |-> <<[id |-> RegionB]>>,
   points |-> <<pB1>>,
   machines |-> <<mB1>>,
   users |-> <<[id |-> "u1"], [id |-> "u2"]>>,
   maintenanceRecords |-> <<rec3>>,
   parts |-> <<[id |-> "k1"]>>]

\* the bodies GET /api/data can answer the user of a token: tokA is the
\* token of an administrator, tokB that of the technician
dataFor(t) ==
  IF t = "tokA" THEN {AllData0, AllData1}
  ELSE IF t = "tokB" THEN {TechnicianData}
  ELSE {}

\* the logged-in user reads the full dataset, online or offline; between two
\* reads the user logs out and a user logs in
SessionNext ==
  \/ (token # NoToken /\ cachedRead(allData))
  \/ \E r \in ReadOutcomes : readFetchSettled(r)
  \/ \E body \in dataFor(token) : readBodyParsed(body)
  \/ readSetCached
  \/ readGetCached
  \/ readerResumes
  \/ (rdPc = "idle" /\ logout)
  \/ \E t \in IssuedTokens : (rdPc = "idle" /\ login(t))
  \/ EnvNext

SessionSpec == Init /\ [][SessionNext]_vars

\* ------------------------------------------------------------------------
\* A context whose openDB('cmm-db') was rejected (db.ts getDb, sw.js
\* dbPromise): the rejected promise is kept, every await of it throws
\* ------------------------------------------------------------------------
\* the error a rejected open gives every await of the database
StoreError == [kind |-> "error", value |-> [json |-> "DOMException"], status |-> 0]

\* variant: queueRequest catches the rejection and returns normally
queueRequestNoStoreSwallowed ==
  /\ ~opened.page
  /\ queueRequestFailureSwallowed

\* db.ts line 54: the await of getDb() in queueRequest throws, and so the
\* await of queueRequest in handleMutation (api.ts line 83)
queueRequestNoStore ==
  /\ ~opened.page
  /\ queueRequestFails

\* api.ts line 48-57: the fetcher has settled; after a 2xx setCachedData
\* throws (db.ts line 49) into the catch block, which rethrows when online
\* and asks the store for the key when offline; a status that is not ok is
\* caught as usual
readBodyParsedNoStore(body) ==
  /\ rdPc = "json"
  /\ ~opened.page
  /\ UNCHANGED <<rdKey, rdResponse>>
  /\ IF ok(rdResponse)
       THEN /\ rdOnLine' = IF online THEN "online" ELSE "offline"
            /\ rdData' = rdData
            /\ IF online
                 THEN rdPc' = "settled" /\ rdResult' = StoreError
                 ELSE rdPc' = "getCachedData" /\ rdResult' = rdResult
       ELSE catchBlock
  /\ UNCHANGED <<cache, fresh>>
  /\ UNCHANGED <<envVars, writeVars, regionVars, serverVars, dbVars>>

\* api.ts line 54: the await of getCachedData throws (db.ts line 44) out of
\* the catch block
readGetCachedNoStore ==
  /\ rdPc = "getCachedData"
  /\ ~opened.page
  /\ rdPc' = "settled"
  /\ rdResult' = StoreError
  /\ UNCHANGED <<cache, rdKey, rdResponse, rdData, rdOnLine, fresh>>
  /\ UNCHANGED <<envVars, writeVars, regionVars, serverVars, dbVars>>

\* variant: the pass takes a rejected open for an empty queue and ends
passRejectsSilently ==
  /\ swPc = "getAll"
  /\ ~opened.worker
  /\ swPc' = "done"
  /\ passStop' = "exhausted"
  /\ UNCHANGED <<storeVars, envVars, browserVars, pageVars, requests, idx,
                 remainingRequests, passSent, passWire, passOutcomes, passPosted, acked>>
  /\ UNCHANGED auxVars

\* sw.js line 48: the await of dbPromise throws; the promise of the pass is
\* rejected
passRejects ==
  /\ swPc = "getAll"
  /\ ~opened.worker
  /\ swPc' = "done"
  /\ passStop' = "rejected"
  /\ UNCHANGED <<storeVars, envVars, browserVars, pageVars, requests, idx,
                 remainingRequests, passSent, passWire, passOutcomes, passPosted, acked>>
  /\ UNCHANGED auxVars

\* sw.js line 90: the promise given to event.waitUntil was rejected; the
\* browser keeps the registration for a retry, or gives it up after its
\* last attempt unless it was renewed meanwhile
waitUntilRejected(retry) ==
  /\ swPc = "done"
  /\ passStop = "rejected"
  /\ swPc' = "idle"
  /\ registration' = IF retry \/ registration = "reregistered" THEN "pending" ELSE "none"
  /\ passStop' = "running"
  /\ UNCHANGED <<storeVars, envVars, readyCallbacks, pageVars, requests, idx,
                 remainingRequests, passSent, passWire, passOutcomes, passPosted, acked>>
  /\ UNCHANGED auxVars

\* the open of each context has resolved or was rejected
StoreInit ==
  /\ InitBut
  /\ opened \in [Contexts -> BOOLEAN]

\* the page adds parts, online and offline, and reads the parts list; the
\* worker replays; the clock stands still
StoreNext ==
  \/ handleMutation(addEntity)
  \/ \E now \in DateNow : (now = 0 /\ opened.page /\ queueRequest(now))
  \/ queueRequestNoStore
  \/ \E now \in DateNow : (now = 0 /\ triggerSync(now))
  \/ \E r \in FetchOutcomes : mutationFetchSettled(r)
  \/ callerResumes
  \/ cachedRead(allParts)
  \/ \E r \in ReadOutcomes : readFetchSettled(r)
  \/ \E body \in Bodies(rdKey) : (opened.page /\ readBodyParsed(body))
  \/ \E body \in Bodies(rdKey) : readBodyParsedNoStore(body)
  \/ readSetCached
  \/ (opened.page /\ readGetCached)
  \/ readGetCachedNoStore
  \/ readerResumes
  \/ register
  \/ sync
  \/ (opened.worker /\ getAll)
  \/ passRejects
  \/ \E r \in FetchOutcomes : fetchSettled(r)
  \/ delete
  \/ count
  \/ postMessage
  \/ (passStop # "rejected" /\ waitUntilSettled)
  \/ \E retry \in BOOLEAN : waitUntilRejected(retry)
  \/ EnvNext

StoreSpec == StoreInit /\ [][StoreNext]_vars

\* ------------------------------------------------------------------------
\* Properties of the replay engine
\* ------------------------------------------------------------------------
Accepted(response) ==
  response.kind = "response" /\ response.status \in 200..299
Rejected4xx(response) ==
  response.kind = "response" /\ response.status \in 400..499
TransportFailed(response) == response.kind = "error"

\* the pass has sent exactly the first k requests of the list it retrieved
SentFirst(k) ==
  /\ Len(passSent) = k
  /\ k <= Len(requests)
  /\ \A j \in 1..k : passSent[j] = requests[j].id

\* C1: when a pass gets a 2xx for every request and nothing was enqueued
\* behind its back, it has sent all the mutations it retrieved in enqueue
\* order (ascending sequence id) and the queue is empty when it ends.
C1_ReplayInEnqueueOrder ==
  ( /\ swPc = "done"
    /\ passStop = "exhausted"
    /\ Ids(queue) \subseteq Ids(Range(requests))
    /\ \A k \in 1..Len(passOutcomes) : Accepted(passOutcomes[k]) )
  => /\ SentFirst(Len(requests))
     /\ \A j, k \in 1..Len(passSent) : j < k => passSent[j] < passSent[k]
     /\ queue = {}

\* C2: in a pass over the list m1..mN, once the server has accepted
\* m1..m(K-1) and rejected mK with a 4xx, m1..m(K-1) are gone from the queue,
\* mK..mN are still queued and nothing after mK has been sent.
C2_HaltOnClientError ==
  \A K \in 1..Len(passOutcomes) :
    ( /\ Rejected4xx(passOutcomes[K])
      /\ \A j \in 1..(K - 1) : Accepted(passOutcomes[j]) )
    => /\ SentFirst(K)
       /\ \A j \in 1..(K - 1) : requests[j].id \notin Ids(queue)
       /\ \A j \in K..Len(requests) : requests[j] \in queue

C2_Witness ==
  /\ swPc = "done"
  /\ Len(requests) = 2
  /\ Len(passOutcomes) = 1
  /\ Rejected4xx(passOutcomes[1])
  /\ Len(passSent) = 1

\* C3: in a pass over the list m1..mN, once the transport has failed for mK
\* after m1..m(K-1) were accepted, mK..mN are all still queued and nothing
\* after mK has been sent.
C3_HaltOnNetworkError ==
  \A K \in 1..Len(passOutcomes) :
    ( /\ TransportFailed(passOutcomes[K])
      /\ \A j \in 1..(K - 1) : Accepted(passOutcomes[j]) )
    => /\ SentFirst(K)
       /\ \A j \in K..Len(requests) : requests[j] \in queue

C3_Witness ==
  /\ swPc = "done"
  /\ Len(requests) = 2
  /\ Len(passOutcomes) = 2
  /\ Accepted(passOutcomes[1])
  /\ TransportFailed(passOutcomes[2])
  /\ Cardinality(queue) = 1

\* C4: a pass sends the request at position N+1 only after the request at
\* position N was answered with a 2xx.
C4_NextOnlyAfterSuccess ==
  \A k \in 2..Len(passSent) :
    /\ Len(passOutcomes) >= k - 1
    /\ Accepted(passOutcomes[k - 1])

\* C5: an entry leaves the queue only after the server answered 2xx to the
\* replay of that entry.
C5_RemovedOnlyAfterSuccess ==
  [][Ids(queue) \ Ids(queue') \subseteq acked]_vars

C5_Witness ==
  /\ acked # {}
  /\ \E id \in acked : id \notin Ids(queue)
  /\ queue # {}

\* C6: once connectivity has returned for good and the server accepts every
\* replayed request, every queued mutation is eventually sent and removed,
\* with no further write by the user.
C6_EventuallyReplayed == stable ~> (queue = {})

\* C7: a pass posts SYNC_COMPLETE once to every client if db.count found the
\* queue empty, and posts nothing if it stopped on a client error or on a
\* network error, or with mutations still queued.
C7_NotifyIffEmpty ==
  /\ \A c \in Clients : passPosted[c] <= 1
  /\ swPc = "done" =>
       LET n == Len(passOutcomes)
           stopped == n > 0 /\ (Rejected4xx(passOutcomes[n]) \/ TransportFailed(passOutcomes[n]))
       IN IF stopped
            THEN queue # {} /\ passPosted = NoPosts
            ELSE IF remainingRequests = 0
              THEN \A c \in Clients : passPosted[c] = 1
              ELSE passPosted = NoPosts

C7_Witness ==
  /\ swPc = "done"
  /\ Len(passSent) >= 1
  /\ \A k \in 1..Len(passOutcomes) : Accepted(passOutcomes[k])
  /\ \A c \in Clients : passPosted[c] = 1

\* ------------------------------------------------------------------------
\* Properties of the write path
\* ------------------------------------------------------------------------
\* C8: an offline write sends no request; it appends exactly one record with
\* the call's url, method, payload and the headers of the stored token,
\* calls triggerSync only after that append, and then returns the
\* optimistic result.
C8_OfflineWriteQueues ==
  [][ /\ (hmPc = "idle" /\ hmPc' # "idle" /\ ~online) =>
           hmPc' = "queueRequest" /\ hmFetches' = 0
      /\ (hmAdded' # hmAdded /\ hmAdded' # {}) =>
           /\ hmFetches = 0
           /\ hmTriggered' = 0
           /\ \E m \in queue' :
                /\ m.id \notin Ids(queue)
                /\ queue' = queue \cup {m}
                /\ hmAdded' = {m.id}
                /\ m.url = hmArgs.url
                /\ m.method = hmArgs.method
                /\ m.body = hmArgs.body
                /\ m.headers.authorization = token
      /\ hmTriggered' > hmTriggered =>
           Cardinality(hmAdded) = 1 /\ queue' = queue
      /\ (hmResult'.kind = "optimistic" /\ hmResult.kind # "optimistic") =>
           hmFetches' = 0 /\ Cardinality(hmAdded') = 1 /\ hmTriggered' = 1
    ]_vars

C8_Witness ==
  /\ hmPc = "settled"
  /\ hmResult.kind = "optimistic"
  /\ token # NoToken
  /\ \E m \in queue : m.id \in hmAdded /\ m.headers.authorization = token

\* C9: an online write is sent at once and leaves the queue alone; a 2xx
\* gives the caller the server's result, a 4xx gives the caller an error
\* and nothing is queued.
C9_OnlineWriteBypassesQueue ==
  [][ /\ (hmPc = "idle" /\ hmPc' # "idle" /\ online) =>
           hmPc' = "fetch" /\ hmFetches' = 1 /\ queue' = queue
      /\ (hmPc = "fetch" /\ hmPc' # "fetch") =>
           /\ hmPc' = "settled"
           /\ queue' = queue
           /\ nextId' = nextId
           /\ readyCallbacks' = readyCallbacks
           /\ hmAdded' = {}
           /\ hmTriggered' = 0
           /\ Accepted(hmResponse') => hmResult'.kind = "server"
           /\ Rejected4xx(hmResponse') => hmResult'.kind = "error"
    ]_vars

C9_Witness ==
  /\ hmPc = "settled"
  /\ hmFetches = 1
  /\ Rejected4xx(hmResponse)
  /\ hmResult.kind = "error"
  /\ queue # {}

\* C10: when the store rejects the append of an offline write, the call
\* ends with an error, the queue is as before, triggerSync is not called and
\* no optimistic result is returned.
C10_StoreFailureIsLoud ==
  [][ /\ (hmStoreFailed' /\ ~hmStoreFailed) =>
           /\ queue' = queue
           /\ nextId' = nextId
           /\ readyCallbacks' = readyCallbacks
           /\ registration' = registration
      /\ hmStoreFailed' =>
           /\ hmPc' = "settled"
           /\ hmResult'.kind = "error"
           /\ hmTriggered' = 0
           /\ hmAdded' = {}
    ]_vars

C10_Witness ==
  /\ hmStoreFailed
  /\ hmPc = "settled"
  /\ queue # {}

\* ------------------------------------------------------------------------
\* Properties of the read path
\* ------------------------------------------------------------------------
\* C11: a read or a write that meets a transport failure (the client offline,
\* or the request failing) never ends with an error for its caller: the read
\* returns the cached value and the write is queued.
C11_TransientFailureNeverSurfaced ==
  /\ (rdPc = "settled" /\ TransportFailed(rdResponse)) => rdResult.kind = "cached"
  /\ (hmPc = "settled" /\ ~hmStoreFailed /\ (hmFetches = 0 \/ TransportFailed(hmResponse))) =>
       hmResult.kind = "optimistic" /\ hmAdded # {}

\* C11 as amended: with navigator.onLine false a write is queued unsent and
\* returns the optimistic result, and a read whose request fails returns the
\* truthy value cached for its key, or the error when nothing is cached;
\* with navigator.onLine true the failure of the request is thrown to the
\* caller of the read or the write and nothing is queued.
C11_OfflineFailureRecovered ==
  /\ (rdPc = "settled" /\ TransportFailed(rdResponse)) =>
       /\ rdOnLine = "online" => rdResult.kind = "error"
       /\ (rdOnLine = "offline" /\ truthy(rdData)) =>
            rdResult.kind = "cached" /\ rdResult.value = rdData
       /\ (rdOnLine = "offline" /\ rdData = Undefined) => rdResult.kind = "error"
       /\ rdResult.kind \in {"cached", "error"}
  /\ (hmPc = "settled" /\ ~hmStoreFailed) =>
       /\ hmFetches = 0 => hmResult.kind = "optimistic" /\ Cardinality(hmAdded) = 1
       /\ TransportFailed(hmResponse) =>
            hmFetches = 1 /\ hmResult.kind = "error" /\ hmAdded = {}

C11_Witness ==
  /\ rdPc = "settled"
  /\ TransportFailed(rdResponse)
  /\ rdResult.kind = "cached"
  /\ hmPc = "settled"
  /\ hmResult.kind = "optimistic"
  /\ hmAdded # {}

\* C12: when a part was created offline and then edited offline under the id
\* the create returned, a pass that reaches the server for every request
\* it sends (the timestamps being in enqueue order) sends the create and the
\* edits in enqueue order, all are accepted, and the server's part carries
\* the name of the latest edit.
C12_OfflineEditsReachServer ==
  ( /\ swPc = "done"
    /\ passStop # "networkError"
    /\ created # NoId
    /\ \E k \in 1..Len(requests) : requests[k].method = "PUT"
    /\ Ids(queue) \subseteq Ids(Range(requests))
    /\ \A a, b \in Range(requests) : a.id < b.id => a.timestamp <= b.timestamp )
  => LET latest == CHOOSE m \in Range(requests) : \A o \in Range(requests) : o.id <= m.id
     IN /\ SentFirst(Len(requests))
        /\ \A j, k \in 1..Len(passSent) : j < k => passSent[j] < passSent[k]
        /\ \A k \in 1..Len(passOutcomes) : Accepted(passOutcomes[k])
        /\ \E e \in server : e.name = latest.body.name
        /\ queue = {}

\* C13: the object an offline write returns is the payload with an id: for a
\* payload without an id the id is offline_<Date.now()>, which no identifier
\* issued by the server equals; for a payload that carries an id it is that
\* id.
C13_OptimisticIdentifier ==
  [][ (hmPc = "triggerSync" /\ hmPc' = "settled") =>
        /\ hmResult'.kind = "optimistic"
        /\ hmResult'.name = hmArgs.body.name
        /\ hmArgs.body.id = NoId =>
             /\ \E t \in DateNow : hmResult'.id = "offline_" \o ToString(t)
             /\ hmResult'.id \notin ServerIds
        /\ hmArgs.body.id # NoId => hmResult'.id = hmArgs.body.id
    ]_vars

C13_Witness ==
  /\ hmPc = "settled"
  /\ hmResult.kind = "optimistic"
  /\ hmResult.id = "42"
  /\ \E m \in queue : m.body.id = NoId

\* the read in progress has ended after its request failed: the fetch was
\* rejected or the server answered with a status that is not ok
ReadFailed == rdPc = "settled" /\ ~ok(rdResponse)

\* C14: when a read's request fails with navigator.onLine false and an
\* earlier fetch has put a value under the key, the read returns exactly
\* that value, whatever JSON value it is, and no error.
C14_OfflineReadReturnsCached ==
  (ReadFailed /\ rdOnLine = "offline" /\ rdData # Undefined) =>
     rdResult.kind = "cached" /\ rdResult.value = rdData

\* C15: the entry of every key is the value the latest successful fetch of
\* that key, or for 'allData' the latest merge of a region sync, produced;
\* a read that returns fetched data returns the body of its own 2xx answer.
C15_CacheHoldsLatestFetch ==
  /\ \A k \in Keys : cache[k] = fresh[k]
  /\ (rdPc = "settled" /\ rdResult.kind = "data") =>
       ok(rdResponse) /\ rdResult.value = rdData /\ rdData \in Bodies(rdKey)
  /\ (rdPc = "settled" /\ ok(rdResponse)) => rdResult.kind = "data"

C15_Witness ==
  /\ rdPc = "settled"
  /\ rdResult.kind = "data"
  /\ rdKey = machineDetails("mA1")
  /\ cache[allData] \notin {Undefined, JsonNull, AllData0, AllData1}

\* C16: when a read's request fails, offline with a value cached under the
\* key the cached value is returned; offline with nothing cached, or online,
\* the original error is thrown and no cached value is returned.
C16_ReadFailureHandling ==
  ReadFailed =>
    /\ (rdOnLine = "offline" /\ rdData # Undefined) =>
         rdResult.kind = "cached" /\ rdResult.value = rdData
    /\ (rdOnLine = "offline" /\ rdData = Undefined) =>
         rdResult = ReadError(rdResponse)
    /\ rdOnLine = "online" => rdResult = ReadError(rdResponse)

\* C17: a read the server rejects with 401 ends with that error for its
\* caller, whatever navigator.onLine is; cached data is not returned.
C17_AuthFailurePropagates ==
  (rdPc = "settled" /\ rdResponse = Response(401)) => rdResult = ReadError(rdResponse)

\* ------------------------------------------------------------------------
\* Properties of the partial region sync
\* ------------------------------------------------------------------------
notInRegion(seq, regionId) == SelectSeq(seq, LAMBDA e : e.regionId # regionId)
inRegion(seq, regionId) == SelectSeq(seq, LAMBDA e : e.regionId = regionId)
recordsNotOf(data, ids) == SelectSeq(data.maintenanceRecords, LAMBDA r : r.machineId \notin ids)

C19_RegionReplaced ==
  (srPc = "settled" /\ srResult.kind = "data" /\ truthy(srBefore)) =>
    LET merged == srResult.value
        oldIds == oldMachineIdsInRegion(srBefore, srRegion)
    IN /\ cache[allData] = merged
       /\ inRegion(merged.points, srRegion) = srNew.points
       /\ inRegion(merged.machines, srRegion) = srNew.machines
       /\ \A r \in Range(srBefore.maintenanceRecords) :
            (r.machineId \in oldIds /\ r \in Range(merged.maintenanceRecords))
              => r \in Range(srNew.maintenanceRecords)

C19_Witness ==
  /\ srPc = "settled"
  /\ srResult.kind = "data"
  /\ truthy(srBefore)
  /\ mA2 \in Range(srBefore.machines)
  /\ rec2 \in Range(srBefore.maintenanceRecords)
  /\ rec2 \notin Range(srResult.value.maintenanceRecords)
  /\ mA2 \notin Range(srResult.value.machines)
  /\ srNew.points = <<pA1renamed>>

\* ------------------------------------------------------------------------
\* Properties of the scheduling of passes
\* ------------------------------------------------------------------------
\* C20: a pass starts only when no pass is in progress, and a trigger that
\* is registered while a pass runs starts nothing: the running pass goes on
\* undisturbed and the registration is kept for after it.
C20_OnePassAtATime ==
  [][ /\ (swPc' = "getAll" /\ registration' # registration /\ readyCallbacks' = readyCallbacks) =>
           swPc = "idle"
      /\ (swPc # "idle" /\ readyCallbacks' < readyCallbacks) =>
           /\ UNCHANGED swVars
           /\ registration' = "reregistered"
    ]_vars

C20_Witness ==
  /\ swPc = "fetch"
  /\ registration = "reregistered"
  /\ Cardinality(queue) = 2

\* ------------------------------------------------------------------------
\* Properties of the queue shared by the page and the service worker
\* ------------------------------------------------------------------------
\* the pass in progress has retrieved its list
PassRetrieved == swPc \notin {"idle", "getAll"}

\* C21: an enqueue made while a pass that has retrieved its list is running
\* gets a sequence id greater than every earlier one and leaves the pass
\* alone; an entry the pass did not retrieve is neither removed nor sent by
\* that pass, so it is still queued when the pass ends.
C21_EnqueueDuringPassIsSafe ==
  [][ /\ (PassRetrieved /\ nextId' # nextId) =>
           /\ UNCHANGED swVars
           /\ \E m \in queue' :
                /\ m \notin queue
                /\ queue' = queue \cup {m}
                /\ \A o \in queue : o.id < m.id
                /\ \A a \in acked : a < m.id
                /\ m.id \notin Ids(Range(requests))
      /\ (PassRetrieved /\ queue' # queue) =>
           \A m \in queue : m.id \notin Ids(Range(requests)) => m \in queue'
      /\ (PassRetrieved' /\ passSent' # passSent) =>
           \A k \in 1..Len(passSent') : passSent'[k] \in Ids(Range(requests'))
    ]_vars

C21_Witness ==
  /\ swPc = "done"
  /\ requests # <<>>
  /\ \E r \in Range(requests) : r.id \notin Ids(queue)
  /\ \E m \in queue : m.id \notin Ids(Range(requests))

\* C22: an enqueue adds exactly one entry, whose sequence id is greater than
\* the id of every entry in the queue and of every entry that was removed
\* from it, and every entry that was queued is still there, unchanged.
C22_FreshIncreasingId ==
  [][ (hmPc = "queueRequest" /\ hmPc' = "triggerSync") =>
        /\ queue \subseteq queue'
        /\ Cardinality(queue') = Cardinality(queue) + 1
        /\ \A m \in queue' \ queue :
             /\ \A id \in Ids(queue) \cup acked : id < m.id
             /\ m.timestamp \in DateNow
    ]_vars

C22_Witness ==
  \E m \in queue : \E a \in acked : a \notin Ids(queue) /\ a < m.id

\* C23: the list a pass retrieves is in ascending order of sequence id,
\* whatever timestamps the entries carry.
C23_RetrievedBySequenceId ==
  PassRetrieved =>
    \A j, k \in 1..Len(requests) : j < k => requests[j].id < requests[k].id

C28_ErrorStatusStopsPass ==
  \A k \in 1..Len(passOutcomes) :
    (passOutcomes[k].kind = "response" /\ passOutcomes[k].status \in 400..599) =>
      /\ Len(passSent) = k
      /\ requests[k] \in queue

C29_ReplaySendsRecordedRequest ==
  [][ /\ \A m \in queue : m.id \in Ids(queue') => m \in queue'
      /\ Cardinality(Ids(queue')) = Cardinality(queue')
      /\ (hmPc = "idle" /\ hmPc' = "queueRequest") => hmHeaders' = getHeaders(token)
      /\ (hmPc = "queueRequest" /\ hmPc' = "triggerSync") =>
           \A m \in queue' \ queue :
             /\ m.url = hmArgs.url
             /\ m.method = hmArgs.method
             /\ m.body = hmArgs.body
             /\ m.headers = hmHeaders
      /\ Len(passWire') > Len(passWire) =>
           LET w == passWire'[Len(passWire')]
               id == passSent'[Len(passSent')]
           IN /\ Len(passWire') = Len(passSent')
              /\ \E m \in queue :
                   /\ m.id = id
                   /\ w.url = m.url
                   /\ w.method = m.method
                   /\ w.headers = m.headers
                   /\ w.body = stringify(m.body)
    ]_vars

C29_Witness ==
  /\ swPc = "fetch"
  /\ Len(passWire) = 2
  /\ passWire[1].headers.authorization = "tokA"
  /\ passWire[2].headers.authorization = "tokB"
  /\ token = NoToken

\* C24: once the server has answered a queued request with a 4xx, and
\* answers it so at every later replay, the request stays in the queue, no
\* request enqueued after it is sent or removed, and no SYNC_COMPLETE is
\* posted.
C24_RejectedBlocksQueue ==
  [][ \A r \in rejected :
        /\ r \in Ids(queue')
        /\ Len(passSent') > Len(passSent) => passSent'[Len(passSent')] <= r
        /\ \A m \in queue : m.id > r => m \in queue'
        /\ passPosted' = NoPosts
    ]_vars


\* ------------------------------------------------------------------------
\* Properties of the cache as a whole
\* ------------------------------------------------------------------------
\* C25: the entry of a key changes only in a step that puts the body of a
\* 2xx answer for that key's resource under it, or, for 'allData', the
\* merge of a region sync; a failed fetch, a read of another key, a write
\* online or offline and a pass leave every entry as it is.
C25_CacheFrame ==
  [][ /\ \A k \in Keys : cache'[k] # cache[k] =>
           \/ /\ rdPc = "json" /\ rdKey = k /\ ok(rdResponse)
              /\ cache'[k] = rdData'
           \/ /\ srPc = "details" /\ online
              /\ \E m \in Range(srNew.machines) : k = machineDetails(m.id)
           \/ /\ k = allData /\ srPc = "getCachedData"
              /\ cache'[k] = merge(srAllData, srRegion, srNew)
           \/ /\ k = allData /\ srPc = "fallback"
              /\ srResult'.kind = "data" /\ cache'[k] = srResult'.value
      /\ (hmPc' # hmPc \/ swPc' # swPc \/ queue' # queue \/ registration' # registration) =>
           cache' = cache
      /\ (rdPc # "idle" /\ rdPc' = "settled" /\ ~ok(rdResponse')) => cache' = cache
    ]_vars

C25_Witness ==
  /\ swPc = "done"
  /\ acked # {}
  /\ truthy(cache[allData])
  /\ cache[allData] \notin Bodies(allData)
  /\ cache[machineDetails("mA1")] # Undefined
  /\ cache[machineDetails("mB1")] = Undefined

\* C26: in a context whose open of the database was rejected, an offline
\* write ends with an error, nothing queued and no sync requested; a read
\* that falls back to the cache offline, or that has data to cache, ends
\* with an error; a pass ends rejected, having sent and posted nothing.
C26_StoreOpenFailureIsLoud ==
  /\ ~opened.page =>
       /\ (hmPc = "settled" /\ hmFetches = 0) =>
            hmResult.kind = "error" /\ hmAdded = {} /\ hmTriggered = 0
       /\ (rdPc = "settled" /\ (rdOnLine = "offline" \/ ok(rdResponse))) =>
            rdResult.kind = "error"
       /\ queue = {}
       /\ readyCallbacks = 0
       /\ cache = [k \in Keys |-> Undefined]
  /\ ~opened.worker =>
       /\ swPc \in {"idle", "getAll", "done"}
       /\ swPc = "done" =>
            passStop = "rejected" /\ passSent = <<>> /\ passPosted = NoPosts
       /\ acked = {}

C26_Witness ==
  /\ ~opened.page
  /\ hmPc = "settled"
  /\ hmFetches = 0
  /\ hmResult.kind = "error"
  /\ rdPc = "settled"
  /\ rdOnLine = "offline"
  /\ rdResult = StoreError

\* ------------------------------------------------------------------------
\* Properties of the order in which writes reach the server
\* ------------------------------------------------------------------------
\* C31: when the server answers a write the page sent online, no earlier
\* write is still waiting in the queue without having been accepted.
C31_OnlineWriteBehindQueue ==
  [][ (hmPc = "fetch" /\ hmPc' = "settled" /\ hmResponse'.kind = "response") =>
        \A m \in queue : m.id \in acked
    ]_vars

\* ------------------------------------------------------------------------
\* Properties of the SYNC_COMPLETE notification
\* ------------------------------------------------------------------------
\* C32: at the instant a pass posts SYNC_COMPLETE the queue is empty, so
\* every write queued before that moment has been accepted by the server.
C32_QueueEmptyWhenPosted ==
  [][ (swPc = "matchAll" /\ passPosted' # passPosted) =>
        /\ queue = {}
        /\ \A id \in 1..(nextId - 1) : id \in acked
    ]_vars

\* ------------------------------------------------------------------------
\* Properties of region syncs that overlap
\* ------------------------------------------------------------------------
\* C33: when two syncs of different regions that started from a cached
\* dataset have both put their result, the cached dataset is what running
\* them one after the other, in one order or the other, would have left.
C33_OverlappingSyncsKeepBoth ==
  ( /\ srPc = "settled" /\ srResult.kind = "data"
    /\ srOther.pc = "settled" /\ srOther.result.kind = "data"
    /\ truthy(srBefore) ) =>
    cache[allData] \in
      {merge(merge(srBefore, srRegion, srNew), srOther.regionId, srOther.newRegionData),
       merge(merge(srBefore, srOther.regionId, srOther.newRegionData), srRegion, srNew)}

\* ------------------------------------------------------------------------
\* Properties of the merged dataset
\* ------------------------------------------------------------------------
\* no two elements of the list carry the same id
uniqueIds(list) ==
  \A j, k \in 1..Len(list) : j # k => list[j].id # list[k].id

\* no two points, no two machines and no two records carry the same id
noDuplicates(data) ==
  /\ uniqueIds(data.points)
  /\ uniqueIds(data.machines)
  /\ uniqueIds(data.maintenanceRecords)

\* C34: a merge of a cached dataset and a region payload that are each free
\* of duplicate ids gives a dataset free of duplicate ids.
C34_MergeKeepsIdsUnique ==
  ( /\ srPc = "setCachedData"
    /\ noDuplicates(srAllData)
    /\ noDuplicates(srNew) ) =>
    noDuplicates(srResult.value)

\* ------------------------------------------------------------------------
\* Properties of a region sync that finds no dataset cached
\* ------------------------------------------------------------------------
\* C35: a sync whose getCachedData('allData') gave no dataset merges
\* nothing and puts nothing at that step; it fetches the full dataset, and
\* when that fetch is answered with a 2xx the body is put under 'allData'
\* and returned, else the cache stays as it is and no dataset is returned.
C35_FallbackToFullFetch ==
  [][ /\ (srPc = "getCachedData" /\ srPc' # srPc /\ ~truthy(srAllData)) =>
           /\ srPc' = "fallback"
           /\ cache' = cache
           /\ srResult' = NoRead
      /\ (srPc = "fallback" /\ srPc' # "fallback") =>
           /\ srPc' = "settled"
           /\ \/ /\ srResult'.kind = "data"
                 /\ ok(Response(srResult'.status))
                 /\ srResult'.value \in Bodies(allData)
                 /\ cache' = [cache EXCEPT ![allData] = srResult'.value]
              \/ /\ srResult'.kind = "error"
                 /\ ~ok(Response(srResult'.status))
                 /\ cache' = cache
    ]_vars

C35_Witness ==
  /\ srPc = "settled"
  /\ srAllData = Undefined
  /\ srNew # NoPayload
  /\ srResult.kind = "data"
  /\ srResult.value = AllData1
  /\ cache[allData] = AllData1

\* ------------------------------------------------------------------------
\* Properties of the detail fetches of a region sync
\* ------------------------------------------------------------------------
\* the keys of the details of the machines in the fresh payload
detailKeys == {machineDetails(m.id) : m \in Range(srNew.machines)}

\* C36: whatever the detail fetches of a sync produced, the sync goes on to
\* read the cached dataset, having put only details of the payload's
\* machines; from a cached dataset it then computes the merge, puts it under
\* 'allData' and returns it.
C36_DetailFailureDoesNotAbort ==
  [][ /\ (srPc = "details" /\ srPc' # srPc) =>
           /\ srPc' = "getCachedData"
           /\ srResult' = NoRead
           /\ \A k \in Keys \ detailKeys : cache'[k] = cache[k]
           /\ \A k \in detailKeys : cache'[k] = cache[k] \/ cache'[k] \in Bodies(k)
      /\ (srPc = "getCachedData" /\ srPc' # srPc /\ truthy(srAllData)) =>
           /\ srPc' = "setCachedData"
           /\ cache'[allData] = merge(srAllData, srRegion, srNew)
           /\ srResult'.value = merge(srAllData, srRegion, srNew)
      /\ (srPc = "setCachedData" /\ srPc' # srPc) =>
           /\ srPc' = "settled"
           /\ srResult'.kind = "data"
           /\ srResult'.value = srResult.value
    ]_vars

C36_Witness ==
  /\ srPc = "settled"
  /\ srResult.kind = "data"
  /\ srResult.value = merge(srAllData, srRegion, srNew)
  /\ cache[allData] = srResult.value
  /\ detailKeys = {machineDetails("mA1"), machineDetails("mB1")}
  /\ cache[machineDetails("mA1")] = Undefined
  /\ cache[machineDetails("mB1")] \in Bodies(machineDetails("mB1")) \ {JsonNull}

\* ------------------------------------------------------------------------
\* Properties of the cache across sessions
\* ------------------------------------------------------------------------
\* C37: a read of the full dataset returns to the logged-in user only a
\* dataset the server answers that user with, never one cached in the
\* session of a user who has logged out.
C37_NoReadAcrossLogout ==
  (rdPc = "settled" /\ rdResult.kind \in {"data", "cached"}) =>
    rdResult.value \in dataFor(token)

\* ------------------------------------------------------------------------
\* Properties of the length of a pass
\* ------------------------------------------------------------------------
\* C38: the list a pass works on is the one it retrieved and does not
\* change; the requests it has sent are the first entries of that list, one
\* request each, so an entry enqueued later is not sent; and a pass that has
\* been started ends.
C38_PassTerminates ==
  /\ [](PassRetrieved =>
          /\ Len(passSent) <= Len(requests)
          /\ \A j \in 1..Len(passSent) : passSent[j] = requests[j].id
          /\ \A j, k \in 1..Len(requests) : j # k => requests[j].id # requests[k].id)
  /\ [][PassRetrieved => (requests' = requests \/ swPc' = "idle")]_vars
  /\ (swPc = "getAll") ~> (swPc = "done")

C38_Witness ==
  /\ swPc = "done"
  /\ passStop = "exhausted"
  /\ Len(passSent) = Len(requests)
  /\ requests # <<>>
  /\ \E m \in queue : m.id \notin Ids(Range(requests))

\* ------------------------------------------------------------------------
\* Properties of the temporary identifiers
\* ------------------------------------------------------------------------
\* C39: the identifier an offline create returns differs from the one an
\* earlier offline create returned.
C39_TemporaryIdsDistinct ==
  (hmPc = "settled" /\ hmResult.kind = "optimistic" /\ created # NoId) =>
    hmResult.id # created

====
